---- MODULE Spec2Model ----
(***************************************************************************)
(* SPHINCS-256 hypertree signing engine (sign.go): key generation, Sign,   *)
(* Verify, Open and the subtree helpers (getSeed, lTree, treehash,         *)
(* validateAuthpath, computeAuthpathWots).                                 *)
(*                                                                         *)
(* Data representation.  A 32-byte block (a hash value, a seed, a mask) is *)
(* a number in 0..HashMod-1, 0 being the all-zero block.  Keys are         *)
(* sequences of blocks (every key offset in sign.go is a multiple of 32).  *)
(* The signature buffer is a sequence of 8-byte words (every signature     *)
(* offset in sign.go is a multiple of 8): <<"z">> is a zero word,          *)
(* <<"b", b0, .., b7>> eight literal bytes and <<"q", x, k>> the k-th      *)
(* quarter of block x.  A uint64 is its eight little-endian bytes.         *)
(* The hash, wots and horst packages are imported by sign.go; they are     *)
(* modelled from their contracts as deterministic functions on blocks.     *)
(***************************************************************************)
EXTENDS Integers, Sequences, FiniteSets, TLC

(***************************************************************************)
(* Parameters                                                              *)
(***************************************************************************)
HashSize == 32
subtreeHeight == 5
totalTreeHeight == 60
nLevels == totalTreeHeight \div subtreeHeight
seedBytes == 32
skRandSeedBytes == 32
messageHashSeedBytes == 32
HorstLogT == 16
HorstSigBytes == 13312
WotsL == 67
WotsLogL == 7
WotsW == 16
WotsSigBytes == WotsL * HashSize
nMasks == 2 * HorstLogT
PublicKeySize == (nMasks + 1) * HashSize
PrivateKeySize == seedBytes + PublicKeySize - HashSize + skRandSeedBytes
SignatureSize == messageHashSeedBytes + (totalTreeHeight + 7) \div 8 + HorstSigBytes
                 + (totalTreeHeight \div subtreeHeight) * WotsSigBytes
                 + totalTreeHeight * HashSize

\* the size of the modelled digest space: blocks are numbers below HashMod
HashMod == 32717
\* bytes per signature word
WordBytes == 8

(***************************************************************************)
(* uint64 arithmetic on eight little-endian bytes                          *)
(***************************************************************************)
Pow2(n) == 2 ^ n

\* bit i of a | b, in place
OrBit(a, b, i) == IF (a \div Pow2(i)) % 2 = 1 \/ (b \div Pow2(i)) % 2 = 1 THEN Pow2(i) ELSE 0

\* a | b for two bytes
BitOr(a, b) ==
    OrBit(a, b, 0) + OrBit(a, b, 1) + OrBit(a, b, 2) + OrBit(a, b, 3)
        + OrBit(a, b, 4) + OrBit(a, b, 5) + OrBit(a, b, 6) + OrBit(a, b, 7)

U64Zero == <<0, 0, 0, 0, 0, 0, 0, 0>>

\* uint64(n) for a non-negative int
U64FromInt(n) ==
    SubSeq([i \in 1..8 |-> IF i <= 4 THEN (n \div Pow2(8 * (i - 1))) % 256 ELSE 0], 1, 8)

U64Or(x, y) == SubSeq([i \in 1..8 |-> BitOr(x[i], y[i])], 1, 8)

\* x >> n
U64Shr(x, n) ==
    LET q == n \div 8
        r == n % 8
        at(i) == IF i + q <= 8 THEN x[i + q] ELSE 0
    IN  SubSeq([i \in 1..8 |-> (at(i) \div Pow2(r)) + (at(i + 1) % Pow2(r)) * Pow2(8 - r)], 1, 8)

\* x << n, the bits shifted past bit 63 dropped
U64Shl(x, n) ==
    LET q == n \div 8
        r == n % 8
        at(i) == IF i - q >= 1 THEN x[i - q] ELSE 0
    IN  SubSeq([i \in 1..8 |-> ((at(i) * Pow2(r)) % 256) + (at(i - 1) \div Pow2(8 - r))], 1, 8)

\* int(x & (2^n - 1)) for n <= 8
U64Low(x, n) == x[1] % Pow2(n)

(***************************************************************************)
(* The hash package (contract): deterministic functions on blocks          *)
(***************************************************************************)
Cube(x) == (((x * x) % HashMod) * x) % HashMod

\* one absorption step; the result is never the zero block (the test acc = acc
\* makes TLC evaluate the arguments first)
Mix(acc, v) ==
    IF acc = acc /\ v = v THEN 1 + (Cube((acc * 251 + v + 1) % HashMod) % (HashMod - 1)) ELSE 0

RECURSIVE MixRange(_, _, _)
\* the digest of s[lo..hi] with their positions, built by halves
MixRange(s, lo, hi) ==
    IF lo >= hi THEN Mix(lo, s[lo])
    ELSE Mix(MixRange(s, lo, (lo + hi) \div 2), MixRange(s, (lo + hi) \div 2 + 1, hi))

\* absorb s[1..n] into acc
MixSeq(acc, s, n) ==
    IF s = s /\ n = 0 THEN Mix(acc, 0) ELSE Mix(acc, MixRange(s, 1, n))

\* hash.Hash_2n_n_mask(out, in, mask): out = H((in0 || in1) xor (m0 || m1))
Hash_2n_n_mask(in0, in1, m0, m1) ==
    IF in0 = in0 /\ in1 = in1 /\ m0 = m0 /\ m1 = m1
    THEN 1 + (Cube((((in0 + m0) % HashMod) * 211 + ((in1 + m1) % HashMod) * 307 + 5) % HashMod)
              % (HashMod - 1))
    ELSE 0

\* hash.Varlen(out, in) on a block followed by eight bytes
Varlen(block, bytes) == MixSeq(Mix(3, block), bytes, 8)

(***************************************************************************)
(* The wots package (contract)                                             *)
(***************************************************************************)
\* one chain step under the mask of that step
ChainStep(x, m) == IF x = x /\ m = m THEN ((x * 7) + m + 1) % HashMod ELSE 0

RECURSIVE ChainTo(_, _, _, _)
\* the chain value at step `to` reached from value x at step `from`: the steps
\* from+1 .. to in order, as two runs (the test x # x makes TLC finish the first
\* run before the second)
ChainTo(x, from, to, masks) ==
    IF x # x THEN 0
    ELSE IF from >= to THEN x
    ELSE IF to = from + 1 THEN ChainStep(x, masks[from + 1])
    ELSE ChainTo(ChainTo(x, from, (from + to) \div 2, masks), (from + to) \div 2, to, masks)

\* the chain value at step WotsW-1 reached from value x at step `from`
ChainFrom(x, from, masks) == ChainTo(x, from, WotsW - 1, masks)

\* the j-th secret block expanded from the seed (j in 0..WotsL-1)
WotsSk(seed, j) == Mix(Mix(11, seed), j)

\* the chain ends of the WotsL secret blocks of seed, a chain being x |-> slope * x + c0
WotsChainEnds(seed, c0, slope) ==
    IF seed # seed \/ c0 # c0 \/ slope # slope THEN <<>>
    ELSE SubSeq([j \in 1..WotsL |-> (slope * WotsSk(seed, j - 1) + c0) % HashMod], 1, WotsL)

\* wots.Pkgen(pk, seed, masks): the WotsL chain ends.  A chain step is affine, so
\* the end of every chain is 7^(w-1) * start + (the end of the chain from 0)
WotsPkgen(seed, masks) ==
    WotsChainEnds(seed, ChainFrom(0, 0, masks),
                  (ChainFrom(1, 0, masks) - ChainFrom(0, 0, masks) + HashMod) % HashMod)

RECURSIVE SeqSum(_, _, _)
\* s[lo] + .. + s[hi]
SeqSum(s, lo, hi) ==
    IF lo > hi THEN 0
    ELSE IF lo = hi THEN s[lo]
    ELSE SeqSum(s, lo, (lo + hi) \div 2) + SeqSum(s, (lo + hi) \div 2 + 1, hi)

\* the digits d followed by the three base-w digits of the checksum c
WotsWithChecksum(d, c) ==
    IF c # c THEN <<>>
    ELSE d \o <<(c \div (WotsW * WotsW)) % WotsW, (c \div WotsW) % WotsW, c % WotsW>>

\* the sum of the complements of the digits d
WotsChecksum(d) ==
    IF d # d THEN 0 ELSE SeqSum([j \in 1..Len(d) |-> WotsW - 1 - d[j]], 1, Len(d))

\* the digits d and their checksum
WotsChecked(d) == WotsWithChecksum(d, WotsChecksum(d))

\* the WotsL base-w digits wots signs for a 32-byte message: two digits per byte and
\* three digits of the checksum of their complements
WotsDigits(msg) ==
    IF msg # msg THEN <<>>
    ELSE WotsChecked(SubSeq([j \in 1..(2 * HashSize) |-> Mix(msg % HashMod, j) % WotsW],
                            1, 2 * HashSize))

\* chain j of seed walked d[j] steps
WotsWalk(d, seed, masks) ==
    IF d # d THEN <<>>
    ELSE SubSeq([j \in 1..WotsL |-> ChainTo(WotsSk(seed, j - 1), 0, d[j], masks)], 1, WotsL)

\* wots.Sign(sig, msg, seed, masks): chain j walked as many steps as digit j says
WotsSign(msg, seed, masks) == WotsWalk(WotsDigits(msg), seed, masks)

\* chain j completed from sig[j] at step d[j]
WotsComplete(sig, d, masks) ==
    IF d # d \/ sig # sig THEN <<>>
    ELSE SubSeq([j \in 1..WotsL |-> ChainFrom(sig[j] % HashMod, d[j], masks)], 1, WotsL)

\* wots.Verify(pk, sig, msg, masks): every chain completed to step w-1
WotsVerify(sig, msg, masks) == WotsComplete(sig, WotsDigits(msg), masks)

(***************************************************************************)
(* The horst package (contract): Sign emits the signature blocks and the   *)
(* root of the HORST tree of the seed; Verify rebuilds a root from the     *)
(* signature blocks, the masks and the message hash, which is the signer's *)
(* root when all three are the signer's                                    *)
(***************************************************************************)
HorstSigBlocks == HorstSigBytes \div HashSize

HorstRoot(seed, masks) == Mix(MixSeq(Mix(19, seed), masks, nMasks), 1)

\* what ties the signature blocks 2.. to the masks and the message hash
HorstBind(sig, masks, mH) ==
    Mix(Mix(MixSeq(37, masks, nMasks), mH),
        SeqSum([j \in 2..HorstSigBlocks |-> ((sig[j] % HashMod) * ((j % 241) + 1)) % HashMod],
               2, HorstSigBlocks) % HashMod)

\* the signature blocks: body with its first block set so that Verify finds root
HorstSeal(body, root, masks, mH) ==
    IF body # body \/ root # root THEN [sig |-> <<>>, root |-> 0]
    ELSE [sig  |-> [body EXCEPT ![1] = (root + HorstBind(body, masks, mH)) % HashMod],
          root |-> root]

\* horst.Sign(sig, root, message, seed, masks, mH)
HorstSign(seed, masks, mH) ==
    HorstSeal(SubSeq([j \in 1..HorstSigBlocks |-> Mix(Mix(17, seed), j)], 1, HorstSigBlocks),
              HorstRoot(seed, masks), masks, mH)

\* horst.Verify(root, sig, pubseed, masks, mH): the root it writes
HorstVerify(sig, masks, mH) ==
    IF sig = sig THEN ((sig[1] % HashMod) + HashMod - HorstBind(sig, masks, mH)) % HashMod ELSE 0

(***************************************************************************)
(* sign.go                                                                 *)
(***************************************************************************)
\* the 64-bit word getSeed hashes after the secret seed
SeedWord(a) ==
    U64Or(U64Or(U64FromInt(a.level), U64Shl(a.subtree, 4)), U64Shl(U64FromInt(a.subleaf), 59))

\* getSeed reading the last block of sk instead of the first
getSeedFromTail(sk, a) == Varlen(sk[Len(sk)], SeedWord(a))

\* getSeed(seed, sk, a)
getSeed(sk, a) == Varlen(sk[1], SeedWord(a))

\* lTree with its mask pairs one pair further up
LTreeMaskIdxShifted(i) == i * 2 + 2 * WotsLogL

\* the index of the first mask block lTree uses at level i
LTreeMaskIdx(i) == i * 2

\* lines 66-68, the inner loop of lTree at level i: blocks 2j and 2j+1 are hashed
\* into block j for j = 0 .. (l>>1)-1.  Iteration j reads no block an earlier
\* iteration wrote (it writes j and reads 2j and 2j+1), so every block is computed
\* from buf as it was when the loop began
LTreeInner(buf, masks, i, l) ==
    SubSeq([k \in 1..Len(buf) |->
               IF k <= l \div 2
               THEN Hash_2n_n_mask(buf[2 * k - 1], buf[2 * k],
                                   masks[LTreeMaskIdx(i) + 1], masks[LTreeMaskIdx(i) + 2])
               ELSE buf[k]], 1, Len(buf))

\* lines 70-75: an odd last block is promoted unchanged, and l becomes the number
\* of blocks left
LTreePromote(b1, l) ==
    IF l % 2 # 0
    THEN [buf |-> [b1 EXCEPT ![l \div 2 + 1] = b1[l]], l |-> l \div 2 + 1]
    ELSE [buf |-> b1, l |-> l \div 2]

\* lines 65-76, one level of lTree on t = [buf, l]
LTreeLevel(t, masks, i) == LTreePromote(LTreeInner(t.buf, masks, i, t.l), t.l)

RECURSIVE LTreeOuter(_, _, _, _)
\* lines 65-76: the levels lo .. hi-1 of lTree in order, as two runs (the test
\* t # t makes TLC finish the first run before the second)
LTreeOuter(t, masks, lo, hi) ==
    IF t # t \/ lo >= hi THEN t
    ELSE IF hi = lo + 1 THEN LTreeLevel(t, masks, lo)
    ELSE LTreeOuter(LTreeOuter(t, masks, lo, (lo + hi) \div 2), masks, (lo + hi) \div 2, hi)

\* lTree(leaf, wotsPk, masks): wotsPk as lTree leaves it; the leaf is its first block
lTree(wotsPk, masks) == LTreeOuter([buf |-> wotsPk, l |-> WotsL], masks, 0, WotsLogL).buf

\* genLeafWots(leaf, masks, sk, a)
genLeafWots(masks, sk, a) == lTree(WotsPkgen(getSeed(sk, a), masks), masks)[1]

(***************************************************************************)
(* Byte buffers as sequences of 8-byte words                               *)
(***************************************************************************)
ZeroWord == <<"z">>

\* the word holding eight literal bytes
BytesWord(bs) == IF \A i \in 1..8 : bs[i] = 0 THEN ZeroWord ELSE <<"b">> \o SubSeq(bs, 1, 8)

\* word k (0..3) of block x
BlockWord(x, k) == IF x = 0 THEN ZeroWord ELSE <<"q", x, k>>

\* a number standing for the content of a word
WordCode(w) ==
    IF w[1] = "z" THEN 0
    ELSE IF w[1] = "q" THEN 4 * w[2] + w[3] + 1
    ELSE MixSeq(29, Tail(w), 8)

\* the eight bytes of the word at byte offset off
ReadBytes(buf, off) ==
    LET w == buf[off \div WordBytes + 1]
    IN  IF w[1] = "z" THEN U64Zero
        ELSE IF w[1] = "b" THEN Tail(w)
        ELSE SubSeq([i \in 1..8 |-> Mix(WordCode(w), i) % 256], 1, 8)

\* the 32-byte block at byte offset off: the block whose four quarters are stored
\* there in order, the zero block for four zero words, and otherwise a block that
\* depends on all 32 bytes
ReadBlock(buf, off) ==
    LET w0 == off \div WordBytes + 1
        ws == SubSeq(buf, w0, w0 + 3)
    IN  IF \A k \in 1..4 : ws[k] = ZeroWord THEN 0
        ELSE IF ws[1][1] = "q" /\ \A k \in 1..4 : ws[k] = <<"q", ws[1][2], k - 1>> THEN ws[1][2]
        ELSE Mix(Mix(Mix(Mix(31, WordCode(ws[1])), WordCode(ws[2])), WordCode(ws[3])),
                 WordCode(ws[4]))

\* n consecutive blocks from byte offset off
ReadBlocks(buf, off, n) ==
    IF buf = buf
    THEN SubSeq([j \in 1..n |-> ReadBlock(buf, off + (j - 1) * HashSize)], 1, n) ELSE <<>>

\* buf with the blocks written from byte offset off on
WriteBlocks(buf, off, blocks) ==
    LET w0 == off \div WordBytes
        n  == (Len(blocks) * HashSize) \div WordBytes
    IN  IF buf = buf /\ blocks = blocks
        THEN SubSeq([i \in 1..Len(buf) |->
                        IF i - 1 >= w0 /\ i - 1 < w0 + n
                        THEN BlockWord(blocks[(i - 1 - w0) \div 4 + 1], (i - 1 - w0) % 4)
                        ELSE buf[i]], 1, Len(buf))
        ELSE <<>>

\* buf with eight bytes written at byte offset off
WriteBytes(buf, off, bs) ==
    IF buf = buf /\ bs = bs THEN [buf EXCEPT ![off \div WordBytes + 1] = BytesWord(bs)] ELSE <<>>

(***************************************************************************)
(* blake512 (contract): the 64-byte digest of blocks followed by bytes, as *)
(* the parts sign.go reads: bytes 0..7, bytes 16..47 and the whole         *)
(***************************************************************************)
BlakeParts(d) ==
    IF d # d THEN [lead |-> <<>>, mid |-> 0, all |-> 0]
    ELSE [lead |-> SubSeq([i \in 1..8 |-> Mix(d, 100 + i) % 256], 1, 8),
          mid  |-> Mix(d, 200),
          all  |-> d]

Blake512(blocks, bytes) ==
    BlakeParts(MixSeq(MixSeq(23, blocks, Len(blocks)), bytes, Len(bytes)))

(***************************************************************************)
(* sign.go: treehash, one loop iteration at a time.  The frame t holds the *)
(* locals of treehash and its arguments                                    *)
(***************************************************************************)
\* lines 90-95: the frame when the for loop is entered
ThEnter(height, sk, leaf, masks) ==
    [a           |-> leaf,
     height      |-> height,
     lastnode    |-> leaf.subleaf + Pow2(height),
     stack       |-> SubSeq([i \in 1..(height + 1) |-> 0], 1, height + 1),
     stacklevels |-> SubSeq([i \in 1..(height + 1) |-> 0], 1, height + 1),
     stackoffset |-> 0,
     maskoffset  |-> 0,
     merged      |-> -1,
     sk          |-> sk,
     masks       |-> masks,
     at          |-> "for"]

\* lines 98-100: the next leaf is pushed with level 0
ThPush(t) ==
    [t EXCEPT !.stack[t.stackoffset + 1] = genLeafWots(t.masks, t.sk, t.a),
              !.stacklevels[t.stackoffset + 1] = 0,
              !.stackoffset = @ + 1,
              !.merged = -1,
              !.at = "while"]

\* the inner loop condition without the comparison of the two levels
ThMergeCondAnyLevel(t) == t.stackoffset > 1

\* line 101: the condition of the inner loop
ThMergeCond(t) ==
    t.stackoffset > 1 /\ t.stacklevels[t.stackoffset] = t.stacklevels[t.stackoffset - 1]

\* line 103: the byte offset of the mask pair that merges two entries of level l
ThMaskOffset(l) == 2 * (l + WotsLogL) * HashSize

\* lines 103-106: the two top entries are replaced by their masked hash
\* (merged records the level of the two entries, for the properties below)
ThMerge(t) ==
    LET mo == ThMaskOffset(t.stacklevels[t.stackoffset])
    IN  [t EXCEPT !.maskoffset = mo,
                  !.stack[t.stackoffset - 1] =
                      Hash_2n_n_mask(t.stack[t.stackoffset - 1], t.stack[t.stackoffset],
                                     t.masks[mo \div HashSize + 1], t.masks[mo \div HashSize + 2]),
                  !.stacklevels[t.stackoffset - 1] = @ + 1,
                  !.stackoffset = @ - 1,
                  !.merged = t.stacklevels[t.stackoffset]]

\* line 97: a.subleaf++ when the inner loop ends
ThAdvance(t) == [t EXCEPT !.a.subleaf = @ + 1, !.at = "for"]

\* line 109: the node treehash copies out
ThNode(t) == t.stack[1]

RECURSIVE ThWhile(_)
\* lines 101-107 run until the condition fails, then a.subleaf++
ThWhile(t) == IF ThMergeCond(t) THEN ThWhile(ThMerge(t)) ELSE ThAdvance(t)

\* one iteration of the for loop of line 97
ThIteration(t) == IF t.a.subleaf < t.lastnode THEN ThWhile(ThPush(t)) ELSE t

RECURSIVE ThIterate(_, _)
\* n iterations of the for loop (split in halves, which keeps the evaluation shallow)
ThIterate(t, n) ==
    IF n <= 0 THEN t
    ELSE IF n = 1 THEN ThIteration(t)
    ELSE LET half == ThIterate(t, n \div 2)
         IN  IF half.at = "for" THEN ThIterate(half, n - n \div 2) ELSE half

\* treehash run to its end from frame t
ThRun(t) == ThIterate(t, t.lastnode - t.a.subleaf)

\* treehash(node, height, sk, leaf, masks): the node it writes
treehash(height, sk, leaf, masks) == ThNode(ThRun(ThEnter(height, sk, leaf, masks)))

(***************************************************************************)
(* sign.go: validateAuthpath and computeAuthpathWots                       *)
(***************************************************************************)
\* lines 127, 130, 135: the index of the mask pair that hashes level i into level i+1
VaMaskIdx(i) == 2 * (WotsLogL + i)

RECURSIVE VaLoop(_, _, _, _, _, _)
\* lines 124-134; authpath is the part of the path not yet consumed
VaLoop(buffer, leafidx, authpath, masks, i, height) ==
    IF i >= height - 1 THEN buffer
    ELSE LET idx == leafidx \div 2
             h   == Hash_2n_n_mask(buffer[1], buffer[2],
                                   masks[VaMaskIdx(i) + 1], masks[VaMaskIdx(i) + 2])
             nb  == IF idx % 2 # 0 THEN <<authpath[1], h>> ELSE <<h, authpath[1]>>
         IN  IF nb = nb THEN VaLoop(nb, idx, Tail(authpath), masks, i + 1, height) ELSE nb

\* validateAuthpath(root, leaf, leafidx, authpath, masks, height): the root it writes
validateAuthpath(leaf, leafidx, authpath, masks, height) ==
    LET b0 == IF leafidx % 2 # 0 THEN <<authpath[1], leaf>> ELSE <<leaf, authpath[1]>>
        b  == VaLoop(b0, leafidx, Tail(authpath), masks, 0, height)
    IN  Hash_2n_n_mask(b[1], b[2], masks[VaMaskIdx(height - 1) + 1],
                       masks[VaMaskIdx(height - 1) + 2])

\* line 159: the index of the mask pair computeAuthpathWots uses at a level
CawMaskIdx(level) == 2 * (WotsLogL + level)

\* lines 158-160, the row of level `level`, which starts at block i = 1 << (h -
\* level): blocks i+j and i+j+1 are hashed into block (i>>1)+(j>>1) for j = 0, 2,
\* .. < i.  The row written lies below the row read, so every block is computed
\* from tree as it was when the loop began
CawInner(tree, masks, level, i) ==
    SubSeq([k \in 1..Len(tree) |->
               IF k - 1 >= i \div 2 /\ k - 1 < i \div 2 + (i + 1) \div 2
               THEN Hash_2n_n_mask(tree[i + 2 * (k - 1 - i \div 2) + 1],
                                   tree[i + 2 * (k - 1 - i \div 2) + 2],
                                   masks[CawMaskIdx(level) + 1], masks[CawMaskIdx(level) + 2])
               ELSE tree[k]], 1, Len(tree))

RECURSIVE CawOuter(_, _, _, _)
\* lines 156-162: the rows of levels lo .. hi-1 in order (i = 1 << subtreeHeight
\* down to i = 1 for levels 0 .. subtreeHeight), as two runs
CawOuter(tree, masks, lo, hi) ==
    IF tree # tree \/ lo >= hi THEN tree
    ELSE IF hi = lo + 1 THEN CawInner(tree, masks, lo, Pow2(subtreeHeight - lo))
    ELSE CawOuter(CawOuter(tree, masks, lo, (lo + hi) \div 2), masks, (lo + hi) \div 2, hi)

\* x ^ 1
Xor1(x) == IF x % 2 = 0 THEN x + 1 ELSE x - 1

\* the node on the path itself instead of its sibling
CawAuthIdxOnPath(idx, i) == Pow2(subtreeHeight) \div Pow2(i) + idx \div Pow2(i)

\* line 168: the block of the tree buffer copied to authpath[i]
CawAuthIdx(idx, i) == Pow2(subtreeHeight) \div Pow2(i) + Xor1(idx \div Pow2(i))

\* lines 165-170: the authentication path of leaf idx copied out of the tree
CawAuthpath(tree, idx, height) ==
    SubSeq([i \in 1..height |-> tree[CawAuthIdx(idx, i - 1) + 1]], 1, height)

\* lines 145-147: the seed buffer
CawSeeds(a, sk) ==
    SubSeq([s \in 1..Pow2(subtreeHeight) |-> getSeed(sk, [a EXCEPT !.subleaf = s - 1])],
           1, Pow2(subtreeHeight))

\* lines 148-150: the WOTS public keys of the seeds
CawPks(seed, masks) ==
    IF seed # seed THEN <<>>
    ELSE SubSeq([s \in 1..Len(seed) |-> WotsPkgen(seed[s], masks)], 1, Len(seed))

\* lines 151-153: the public keys as the lTree calls leave them
CawLTrees(pks, masks) ==
    IF pks # pks THEN <<>>
    ELSE SubSeq([s \in 1..Len(pks) |-> lTree(pks[s], masks)], 1, Len(pks))

\* line 152: the tree buffer with the leaves in its upper half
CawLeaves(lt) ==
    IF lt # lt THEN <<>>
    ELSE SubSeq([k \in 1..(2 * Len(lt)) |-> IF k > Len(lt) THEN lt[k - Len(lt)][1] ELSE 0],
                1, 2 * Len(lt))

\* line 142: the pk buffer, the public keys one after the other
CawPkBuffer(lt) ==
    SubSeq([k \in 1..(Len(lt) * WotsL) |-> lt[(k - 1) \div WotsL + 1][((k - 1) % WotsL) + 1]],
           1, Len(lt) * WotsL)

\* lines 164-173: the root and the authentication path copied out of the tree,
\* and the three local buffers as they are left
CawResult(a, seed, lt, tree, height) ==
    IF tree # tree THEN [root |-> 0, authpath |-> <<>>, tree |-> <<>>, seed |-> <<>>, pk |-> <<>>]
    ELSE [root     |-> tree[2],
          authpath |-> CawAuthpath(tree, a.subleaf, height),
          tree     |-> tree,
          seed     |-> seed,
          pk       |-> CawPkBuffer(lt)]

\* lines 155-173
CawFromLTrees(a, seed, lt, masks, height) ==
    CawResult(a, seed, lt, CawOuter(CawLeaves(lt), masks, 0, subtreeHeight + 1), height)

\* lines 148-173
CawFromSeeds(a, seed, masks, height) ==
    CawFromLTrees(a, seed, CawLTrees(CawPks(seed, masks), masks), masks, height)

\* computeAuthpathWots(root, authpath, a, sk, masks, height): the root and the
\* authentication path it writes, and its three local buffers as it leaves them
computeAuthpathWots(a, sk, masks, height) == CawFromSeeds(a, CawSeeds(a, sk), masks, height)

(***************************************************************************)
(* sign.go: Verify and Open                                                *)
(***************************************************************************)
RECURSIVE VerifyLeafidx(_, _, _)
\* lines 302-304: the bits leafidx |= uint64(sigp[i]) << (8*i) sets for i = lo .. hi-1
VerifyLeafidx(bytes, lo, hi) ==
    IF lo >= hi THEN U64Zero
    ELSE IF hi = lo + 1 THEN U64Shl(U64FromInt(bytes[lo + 1]), 8 * lo)
    ELSE U64Or(VerifyLeafidx(bytes, lo, (lo + hi) \div 2),
               VerifyLeafidx(bytes, (lo + hi) \div 2, hi))

\* line 319: the bytes Verify skips after the WOTS signature of a level
VerifyAuthBytes == subtreeHeight * HashSize

\* lines 313-319: one level; v holds root, leafidx and the offset of sigp
VerifyLevel(sig, tpk, v) ==
    [root    |-> validateAuthpath(lTree(WotsVerify(ReadBlocks(sig, v.sigp, WotsL), v.root, tpk),
                                        tpk)[1],
                                  U64Low(v.leafidx, 5),
                                  ReadBlocks(sig, v.sigp + WotsSigBytes, subtreeHeight),
                                  tpk, subtreeHeight),
     leafidx |-> U64Shr(v.leafidx, 5),
     sigp    |-> v.sigp + WotsSigBytes + VerifyAuthBytes]

RECURSIVE VerifyLevels(_, _, _, _, _)
\* lines 312-320: the levels lo .. hi-1 in order, as two runs
VerifyLevels(sig, tpk, v, lo, hi) ==
    IF v # v \/ lo >= hi THEN v
    ELSE IF hi = lo + 1 THEN VerifyLevel(sig, tpk, v)
    ELSE VerifyLevels(sig, tpk, VerifyLevels(sig, tpk, v, lo, (lo + hi) \div 2),
                      (lo + hi) \div 2, hi)

\* lines 294-298: the message hash
VerifyHash(tpk, message, signature) ==
    Blake512(<<ReadBlock(signature, 0)>> \o tpk, message).all

\* lines 300-310: leafidx, the root horst.Verify writes and the offset of the
\* first WOTS signature
VerifyStart(signature, tpk, mH) ==
    IF mH # mH THEN [root |-> 0, leafidx |-> U64Zero, sigp |-> 0]
    ELSE [root    |-> HorstVerify(ReadBlocks(signature,
                                             messageHashSeedBytes + (totalTreeHeight + 7) \div 8,
                                             HorstSigBlocks), tpk, mH),
          leafidx |-> VerifyLeafidx(ReadBytes(signature, messageHashSeedBytes), 0,
                                    (totalTreeHeight + 7) \div 8),
          sigp    |-> messageHashSeedBytes + (totalTreeHeight + 7) \div 8 + HorstSigBytes]

\* Verify(publicKey, message, signature)
Verify(publicKey, message, signature) ==
    VerifyLevels(signature, publicKey,
                 VerifyStart(signature, publicKey, VerifyHash(publicKey, message, signature)),
                 0, nLevels).root = publicKey[nMasks + 1]

\* the length test with <= in place of <
OpenTooShortOrEqual(len) == len <= SignatureSize

\* line 329: the length test of Open
OpenTooShort(len) == len < SignatureSize

\* lines 337-340: what Open returns after Verify
OpenResult(rest, sig, ok) ==
    IF ok = FALSE
    THEN [body |-> <<>>, nil |-> TRUE, err |-> "verification failed",
          calls |-> <<[sig |-> sig, message |-> rest]>>]
    ELSE [body |-> rest, nil |-> FALSE, err |-> "",
          calls |-> <<[sig |-> sig, message |-> rest]>>]

\* lines 333-340: sig and body are split off and Verify is called
OpenVerify(publicKey, sig, rest) == OpenResult(rest, sig, Verify(publicKey, rest, sig))

\* Open(publicKey, message) for the message made of the first len bytes of
\* sig || body: the body and error it returns and the calls of Verify it makes
Open(publicKey, sig, body, len) ==
    IF OpenTooShort(len)
    THEN [body |-> <<>>, nil |-> TRUE, err |-> "too short", calls |-> <<>>]
    ELSE OpenVerify(publicKey, sig, SubSeq(body, 1, len - SignatureSize))

(***************************************************************************)
(* The mask blocks each component reads                                    *)
(***************************************************************************)
\* wots: one mask per chain step (contract)
ChainMasks == 0..(WotsW - 2)
\* lTree, lines 65-67
LTreeMasks == UNION {{LTreeMaskIdx(i), LTreeMaskIdx(i) + 1} : i \in 0..(WotsLogL - 1)}
\* computeAuthpathWots, lines 156-162: one row per value of i, 1 << subtreeHeight .. 1
CawMasks == UNION {{CawMaskIdx(l), CawMaskIdx(l) + 1} : l \in 0..subtreeHeight}
\* validateAuthpath, lines 124-135
VaMasks(height) == UNION {{VaMaskIdx(i), VaMaskIdx(i) + 1} : i \in 0..(height - 1)}

(***************************************************************************)
(* The program as a state machine.  One caller generates a key pair, signs *)
(* a message with it, and then verifies and opens signatures and generates *)
(* a second key pair.  treehash runs one loop iteration per step; Sign     *)
(* runs one signature segment per step.                                    *)
(***************************************************************************)
VARIABLES pc, privateKey, publicKey, genErr, kg, th, sg, sm, caw,
          seedLog, maskUse, dirty, written, vres, ores, probe

vars == <<pc, privateKey, publicKey, genErr, kg, th, sg, sm, caw,
          seedLog, maskUse, dirty, written, vres, ores, probe>>

\* the number of distinct values of the first 1056 bytes the reader yields
NPrefixes == 2
\* the number of distinct values of the last 32 bytes the reader yields
NSkRand == 2
\* the longest message
MaxMsgLen == 1
\* the byte messages are made of
MsgByte == 97

\* the 34 blocks a reader yields: seed, masks, skRandSeed.  Blocks drawn from
\* the reader lie above every hash value, so a secret block is told from a digest
RandStream(p, r) ==
    <<HashMod + p>> \o SubSeq([i \in 1..nMasks |-> 2 * HashMod + 64 * p + i], 1, nMasks)
                    \o <<3 * HashMod + r>>

Messages == UNION {[1..n -> {MsgByte}] : n \in 0..MaxMsgLen}

AddrZero == [level |-> 0, subtree |-> U64Zero, subleaf |-> 0]

NoFrame == [a |-> AddrZero, height |-> 0, lastnode |-> 0, stack |-> <<>>,
            stacklevels |-> <<>>, stackoffset |-> 0, maskoffset |-> 0, merged |-> -1,
            sk |-> <<>>, masks |-> <<>>, at |-> "none"]

NoKg == [slot |-> 0, privateKey |-> <<>>, publicKey |-> <<>>]

NoSign == [message |-> <<>>, leafidx |-> U64Zero, r |-> 0, mH |-> 0, tsk |-> <<>>,
           root |-> 0, seed |-> 0, masks |-> <<>>, a |-> AddrZero, sigp |-> 0, i |-> 0,
           pk |-> <<>>, skRand |-> 0, started |-> FALSE, done |-> FALSE]

NoCaw == [ret |-> [root |-> 0, authpath |-> <<>>, tree |-> <<>>, seed |-> <<>>, pk |-> <<>>],
          a |-> AddrZero, calls |-> 0]

NoVres == [set |-> FALSE, slot |-> 0, message |-> <<>>, flip |-> -1, ok |-> FALSE]

NoOres == [set |-> FALSE, slot |-> 0, body |-> <<>>, len |-> 0,
           ret |-> [body |-> <<>>, nil |-> TRUE, err |-> "", calls |-> <<>>]]

NoProbe == [set |-> FALSE, a |-> AddrZero, word |-> U64Zero]

NoMaskUse == [chain |-> {}, ltree |-> {}, tree |-> {}]

Init ==
    /\ pc = "idle"
    /\ privateKey = <<<<>>, <<>>>>
    /\ publicKey = <<<<>>, <<>>>>
    /\ genErr = FALSE
    /\ kg = NoKg
    /\ th = NoFrame
    /\ sg = NoSign
    /\ sm = <<>>
    /\ caw = NoCaw
    /\ seedLog = {}
    /\ maskUse = NoMaskUse
    /\ dirty = {}
    /\ written = <<>>
    /\ vres = NoVres
    /\ ores = NoOres
    /\ probe = NoProbe

\* the entry of seedLog for one call of getSeed
SeedEntry(a, who) == [a |-> a, word |-> SeedWord(a), who |-> who]

\* line 185 and line 231: the address of the first leaf of the top subtree
TopAddr == [level |-> nLevels - 1, subtree |-> U64Zero, subleaf |-> 0]

(* GenerateKey, lines 177-183: the reader fails *)
GenerateKeyFails(slot) ==
    /\ pc = "idle"
    /\ privateKey[slot] = <<>>
    /\ slot = 1 \/ sg.done
    /\ genErr' = TRUE
    /\ pc' = "returned"
    /\ UNCHANGED <<privateKey, publicKey, kg, th, sg, sm, caw, seedLog, maskUse,
                   dirty, written, vres, ores, probe>>

(* GenerateKey, lines 177-188: the key is read, the masks are copied and    *)
(* treehash is entered.  The second key differs from the first.            *)
GenerateKeyStart(slot, p, r) ==
    /\ pc = "idle"
    /\ privateKey[slot] = <<>>
    /\ slot = 1 \/ (sg.done /\ RandStream(p, r) # privateKey[1])
    /\ LET sk == RandStream(p, r)
           pk == SubSeq(sk, seedBytes \div HashSize + 1, seedBytes \div HashSize + nMasks) \o <<0>>
       IN  /\ kg' = [slot |-> slot, privateKey |-> sk, publicKey |-> pk]
           /\ th' = ThEnter(subtreeHeight, sk, TopAddr, pk)
    /\ pc' = "keygen"
    /\ UNCHANGED <<privateKey, publicKey, genErr, sg, sm, caw, seedLog, maskUse,
                   dirty, written, vres, ores, probe>>

InTreehash == pc \in {"keygen", "sign_pk"}

(* treehash, lines 97-100: a leaf is generated and pushed *)
TreehashLeaf ==
    /\ InTreehash
    /\ th.at = "for"
    /\ th.a.subleaf < th.lastnode
    /\ th' = ThPush(th)
    /\ seedLog' = IF pc = "sign_pk" THEN seedLog \cup {SeedEntry(th.a, "wots")} ELSE seedLog
    /\ maskUse' = [maskUse EXCEPT !.chain = @ \cup ChainMasks, !.ltree = @ \cup LTreeMasks]
    /\ UNCHANGED <<pc, privateKey, publicKey, genErr, kg, sg, sm, caw,
                   dirty, written, vres, ores, probe>>

(* treehash, lines 101-107: the two top entries are merged *)
TreehashMerge ==
    /\ InTreehash
    /\ th.at = "while"
    /\ ThMergeCond(th)
    /\ th' = ThMerge(th)
    /\ maskUse' = [maskUse EXCEPT !.tree = @ \cup
                      {th'.maskoffset \div HashSize, th'.maskoffset \div HashSize + 1}]
    /\ UNCHANGED <<pc, privateKey, publicKey, genErr, kg, sg, sm, caw, seedLog,
                   dirty, written, vres, ores, probe>>

(* treehash, lines 101 and 97: the inner loop ends and the next leaf is due *)
TreehashNext ==
    /\ InTreehash
    /\ th.at = "while"
    /\ ~ThMergeCond(th)
    /\ th' = ThAdvance(th)
    /\ UNCHANGED <<pc, privateKey, publicKey, genErr, kg, sg, sm, caw, seedLog, maskUse,
                   dirty, written, vres, ores, probe>>

(* treehash, line 109, and GenerateKey, line 189: the root is copied into   *)
(* the public key and both keys are returned                               *)
GenerateKeyReturn ==
    /\ pc = "keygen"
    /\ th.at = "for"
    /\ th.a.subleaf >= th.lastnode
    /\ publicKey' = [publicKey EXCEPT ![kg.slot] = [kg.publicKey EXCEPT ![nMasks + 1] = ThNode(th)]]
    /\ privateKey' = [privateKey EXCEPT ![kg.slot] = kg.privateKey]
    /\ genErr' = FALSE
    /\ pc' = "idle"
    /\ th' = [th EXCEPT !.at = "done"]
    /\ UNCHANGED <<kg, sg, sm, caw, seedLog, maskUse, dirty, written, vres, ores, probe>>

(***************************************************************************)
(* Sign                                                                    *)
(***************************************************************************)
\* the words of a buffer that byte offsets off .. off+len-1 cover
WordsOf(off, len) == {i \in 1..(SignatureSize \div WordBytes) :
                         (i - 1) * WordBytes >= off /\ (i - 1) * WordBytes < off + len}

\* the first eight digest bytes kept whole
SignLeafidxUnmasked(lead) == lead

\* line 223: the leaf index kept from the first eight digest bytes
SignLeafidx(lead) == [lead EXCEPT ![8] = @ % 16]

\* the HORST address at level 0
SignHorstAddrLevel0(leafidx) ==
    [level |-> 0, subleaf |-> U64Low(leafidx, subtreeHeight),
     subtree |-> U64Shr(leafidx, subtreeHeight)]

\* line 245: the address of the HORST key pair
SignHorstAddr(leafidx) ==
    [level |-> nLevels, subleaf |-> U64Low(leafidx, subtreeHeight),
     subtree |-> U64Shr(leafidx, subtreeHeight)]

\* lines 253-255: the bytes of leafidx as Sign stores them
SignLeafidxBytes(leafidx) ==
    SubSeq([i \in 1..((totalTreeHeight + 7) \div 8) |-> U64Shr(leafidx, 8 * (i - 1))[1]],
           1, (totalTreeHeight + 7) \div 8)

\* the cursor moved over one block less
SignAuthBytesShort == (subtreeHeight - 1) * HashSize

\* line 270: the bytes the cursor moves over an authentication path
SignAuthBytes == subtreeHeight * HashSize

\* line 211: where the first scratch area starts
ScratchRand == SignatureSize - skRandSeedBytes
\* line 227: where the second scratch area starts
ScratchHash == SignatureSize - messageHashSeedBytes - PublicKeySize

\* lines 233-236: the public key Sign rebuilds in the scratch, whose last block
\* holds skRandSeed while treehash runs
SignPublicKey(tsk) ==
    LET pk == SubSeq(tsk, seedBytes \div HashSize + 1, seedBytes \div HashSize + nMasks)
                 \o <<tsk[PrivateKeySize \div HashSize]>>
    IN  [pk EXCEPT ![nMasks + 1] = treehash(subtreeHeight, tsk, TopAddr, pk)]

(* Sign, lines 196-235: tsk is copied, skRandSeed goes to the scratch at    *)
(* the end of sm, leafidx and R are derived, R and the masks go to the     *)
(* scratch, and treehash is entered to rebuild the root                    *)
SignStart(message) ==
    /\ pc = "idle"
    /\ privateKey[1] # <<>>
    /\ ~sg.started
    /\ LET tsk     == privateKey[1]
           sm0     == SubSeq([i \in 1..(SignatureSize \div WordBytes) |-> ZeroWord],
                             1, SignatureSize \div WordBytes)
           sm1     == WriteBlocks(sm0, ScratchRand, <<tsk[PrivateKeySize \div HashSize]>>)
           rnd     == Blake512(ReadBlocks(sm1, ScratchRand, 1), message)
           leafidx == SignLeafidx(rnd.lead)
           sm2     == WriteBlocks(sm1, ScratchHash, <<rnd.mid>>)
           sm3     == WriteBlocks(sm2, ScratchHash + messageHashSeedBytes,
                                  SubSeq(tsk, seedBytes \div HashSize + 1,
                                         seedBytes \div HashSize + nMasks))
           pk      == ReadBlocks(sm3, ScratchHash + messageHashSeedBytes,
                                 PublicKeySize \div HashSize)
       IN  /\ sm' = sm3
           /\ sg' = [NoSign EXCEPT !.message = message, !.leafidx = leafidx, !.r = rnd.mid,
                                   !.tsk = tsk, !.started = TRUE,
                                   !.skRand = tsk[PrivateKeySize \div HashSize]]
           /\ th' = ThEnter(subtreeHeight, tsk, TopAddr, pk)
           /\ dirty' = WordsOf(ScratchRand, skRandSeedBytes)
                          \cup WordsOf(ScratchHash, messageHashSeedBytes + PublicKeySize)
    /\ pc' = "sign_pk"
    /\ seedLog' = {}
    /\ written' = <<>>
    /\ caw' = NoCaw
    /\ UNCHANGED <<privateKey, publicKey, genErr, kg, maskUse, vres, ores, probe>>

(* treehash, line 109, and Sign, lines 237-256: the root completes the     *)
(* scratch copy of the public key, the message is hashed, and R and        *)
(* leafidx are written at the head of sm                                   *)
SignHead ==
    /\ pc = "sign_pk"
    /\ th.at = "for"
    /\ th.a.subleaf >= th.lastnode
    /\ LET sm4   == WriteBlocks(sm, ScratchHash + messageHashSeedBytes + nMasks * HashSize,
                                <<ThNode(th)>>)
           mH    == Blake512(ReadBlocks(sm4, ScratchHash,
                                        (messageHashSeedBytes + PublicKeySize) \div HashSize),
                             sg.message).all
           sm5   == WriteBlocks(sm4, 0, <<sg.r>>)
           sm6   == WriteBytes(sm5, messageHashSeedBytes, SignLeafidxBytes(sg.leafidx))
       IN  /\ sm' = sm6
           /\ sg' = [sg EXCEPT !.mH = mH,
                               !.pk = ReadBlocks(sm4, ScratchHash + messageHashSeedBytes,
                                                 PublicKeySize \div HashSize),
                               !.a = SignHorstAddr(sg.leafidx),
                               !.masks = SubSeq(sg.tsk, seedBytes \div HashSize + 1,
                                                seedBytes \div HashSize + nMasks),
                               !.sigp = messageHashSeedBytes + (totalTreeHeight + 7) \div 8]
           /\ dirty' = dirty \ (WordsOf(0, messageHashSeedBytes)
                                  \cup WordsOf(messageHashSeedBytes, (totalTreeHeight + 7) \div 8))
           /\ written' = <<[name |-> "R", off |-> 0, len |-> messageHashSeedBytes],
                           [name |-> "leafidx", off |-> messageHashSeedBytes,
                            len |-> (totalTreeHeight + 7) \div 8]>>
    /\ th' = [th EXCEPT !.at = "done"]
    /\ pc' = "sign_horst"
    /\ UNCHANGED <<privateKey, publicKey, genErr, kg, caw, seedLog, maskUse,
                   vres, ores, probe>>

(* Sign, lines 258-260: the HORST signature of the message hash *)
SignHorst ==
    /\ pc = "sign_horst"
    /\ LET hs == HorstSign(getSeed(sg.tsk, sg.a), sg.masks, sg.mH)
       IN  /\ sg' = [sg EXCEPT !.seed = getSeed(sg.tsk, sg.a), !.root = hs.root,
                               !.sigp = @ + HorstSigBytes, !.i = 0]
           /\ sm' = WriteBlocks(sm, sg.sigp, hs.sig)
    /\ seedLog' = seedLog \cup {SeedEntry(sg.a, "horst")}
    /\ dirty' = dirty \ WordsOf(sg.sigp, HorstSigBytes)
    /\ written' = Append(written, [name |-> "horst", off |-> sg.sigp, len |-> HorstSigBytes])
    /\ pc' = "sign_level"
    /\ UNCHANGED <<privateKey, publicKey, genErr, kg, th, caw, maskUse, vres, ores, probe>>

\* line 263: the address of the WOTS key pair of level i
SignLevelAddr(a, i) == [a EXCEPT !.level = i]

\* lines 272-273: the address one level up
SignNextAddr(a) ==
    [a EXCEPT !.subleaf = U64Low(a.subtree, subtreeHeight),
              !.subtree = U64Shr(a.subtree, subtreeHeight)]

(* Sign, lines 262-274: one level of the hypertree: the WOTS signature of   *)
(* the root below, the authentication path, and the address one level up   *)
SignLevel ==
    /\ pc = "sign_level"
    /\ sg.i < nLevels
    /\ caw' = [ret   |-> computeAuthpathWots(SignLevelAddr(sg.a, sg.i), sg.tsk, sg.masks,
                                             subtreeHeight),
               a     |-> SignLevelAddr(sg.a, sg.i),
               calls |-> caw.calls + 1]
    /\ sg' = [sg EXCEPT !.seed = getSeed(sg.tsk, SignLevelAddr(sg.a, sg.i)),
                        !.root = caw'.ret.root,
                        !.sigp = @ + WotsSigBytes + SignAuthBytes,
                        !.a = SignNextAddr(SignLevelAddr(sg.a, sg.i)),
                        !.i = @ + 1]
    /\ sm' = WriteBlocks(WriteBlocks(sm, sg.sigp,
                                     WotsSign(sg.root, getSeed(sg.tsk, SignLevelAddr(sg.a, sg.i)),
                                              sg.masks)),
                         sg.sigp + WotsSigBytes, caw'.ret.authpath)
    /\ seedLog' = seedLog \cup {SeedEntry(caw'.a, "wots")}
                     \cup {SeedEntry([caw'.a EXCEPT !.subleaf = s], "wots") :
                             s \in 0..(Pow2(subtreeHeight) - 1)}
    /\ maskUse' = [maskUse EXCEPT !.chain = @ \cup ChainMasks, !.ltree = @ \cup LTreeMasks,
                                  !.tree = @ \cup CawMasks]
    /\ dirty' = dirty \ WordsOf(sg.sigp, WotsSigBytes + SignAuthBytes)
    /\ written' = written \o <<[name |-> "wots", off |-> sg.sigp, len |-> WotsSigBytes],
                               [name |-> "authpath", off |-> sg.sigp + WotsSigBytes,
                                len |-> SignAuthBytes]>>
    /\ pc' = "sign_level"
    /\ UNCHANGED <<privateKey, publicKey, genErr, kg, th, vres, ores, probe>>

(* Sign, lines 276-278: tsk is zeroed and sm is returned *)
SignReturn ==
    /\ pc = "sign_level"
    /\ sg.i >= nLevels
    /\ sg' = [sg EXCEPT !.tsk = SubSeq([k \in 1..Len(sg.tsk) |-> 0], 1, Len(sg.tsk)),
                        !.done = TRUE]
    /\ pc' = "idle"
    /\ UNCHANGED <<privateKey, publicKey, genErr, kg, th, sm, caw, seedLog, maskUse,
                   dirty, written, vres, ores, probe>>

(***************************************************************************)
(* Callers of Verify and Open                                              *)
(***************************************************************************)
\* the signature with bit b (0..63) of the leaf index field inverted
FlipBit(sig, b) ==
    LET bs == ReadBytes(sig, messageHashSeedBytes)
        k  == b \div 8 + 1
        w  == Pow2(b % 8)
        nb == IF (bs[k] \div w) % 2 = 1 THEN bs[k] - w ELSE bs[k] + w
    IN  WriteBytes(sig, messageHashSeedBytes, [bs EXCEPT ![k] = nb])

\* the bits of the leaf index field
LeafidxBits == 0..(8 * ((totalTreeHeight + 7) \div 8) - 1)

\* the lengths at which a signed message is cut before it is opened
OpenCuts == {0, SignatureSize - 1, SignatureSize + MaxMsgLen}

Min(x, y) == IF x < y THEN x ELSE y

(* Verify(publicKey[k], message, sm) on the signature Sign returned *)
VerifyCall(k, message) ==
    /\ pc = "idle"
    /\ sg.done
    /\ publicKey[k] # <<>>
    /\ vres' = [set |-> TRUE, slot |-> k, message |-> message, flip |-> -1,
                ok |-> Verify(publicKey[k], message, sm)]
    /\ maskUse' = [maskUse EXCEPT !.chain = @ \cup ChainMasks, !.ltree = @ \cup LTreeMasks,
                                  !.tree = @ \cup VaMasks(subtreeHeight)]
    /\ pc' = "returned"
    /\ UNCHANGED <<privateKey, publicKey, genErr, kg, th, sg, sm, caw, seedLog,
                   dirty, written, ores, probe>>

(* Verify on the signed message and the signature with one bit of the leaf *)
(* index field inverted, by the holder of the first key pair               *)
VerifyFlipped(b) ==
    /\ pc = "idle"
    /\ sg.done
    /\ privateKey[2] = <<>>
    /\ vres' = [set |-> TRUE, slot |-> 1, message |-> sg.message, flip |-> b,
                ok |-> Verify(publicKey[1], sg.message, FlipBit(sm, b))]
    /\ maskUse' = [maskUse EXCEPT !.chain = @ \cup ChainMasks, !.ltree = @ \cup LTreeMasks,
                                  !.tree = @ \cup VaMasks(subtreeHeight)]
    /\ pc' = "returned"
    /\ UNCHANGED <<privateKey, publicKey, genErr, kg, th, sg, sm, caw, seedLog,
                   dirty, written, ores, probe>>

(* Open(publicKey[k], message) where message is sm followed by body, cut   *)
(* to at most cut bytes                                                    *)
OpenCall(k, body, cut) ==
    /\ pc = "idle"
    /\ sg.done
    /\ publicKey[k] # <<>>
    /\ ores' = [set |-> TRUE, slot |-> k, body |-> body,
                len |-> Min(cut, SignatureSize + Len(body)),
                ret |-> Open(publicKey[k], sm, body, Min(cut, SignatureSize + Len(body)))]
    /\ maskUse' = IF ores'.ret.calls = <<>> THEN maskUse
                  ELSE [maskUse EXCEPT !.chain = @ \cup ChainMasks,
                                       !.ltree = @ \cup LTreeMasks,
                                       !.tree = @ \cup VaMasks(subtreeHeight)]
    /\ pc' = "returned"
    /\ UNCHANGED <<privateKey, publicKey, genErr, kg, th, sg, sm, caw, seedLog,
                   dirty, written, vres, probe>>

\* the addresses getSeed is probed with
ProbeLevels == 0..nLevels
ProbeSubtrees == {U64Zero, U64FromInt(1), <<0, 0, 0, 0, 0, 0, 64, 0>>,
                  <<255, 255, 255, 255, 255, 255, 127, 0>>}
ProbeSubleafs == {0, 1, 16, 31}
ProbeAddrs == [level : ProbeLevels, subtree : ProbeSubtrees, subleaf : ProbeSubleafs]

(* getSeed on an address, before any key exists: the word it hashes *)
GetSeedProbe(a) ==
    /\ pc = "idle"
    /\ privateKey[1] = <<>>
    /\ probe' = [set |-> TRUE, a |-> a, word |-> SeedWord(a)]
    /\ pc' = "returned"
    /\ UNCHANGED <<privateKey, publicKey, genErr, kg, th, sg, sm, caw, seedLog, maskUse,
                   dirty, written, vres, ores>>

(* the caller takes the result and goes on *)
Continue ==
    /\ pc = "returned"
    /\ pc' = "idle"
    /\ vres' = NoVres
    /\ ores' = NoOres
    /\ probe' = NoProbe
    /\ genErr' = FALSE
    /\ UNCHANGED <<privateKey, publicKey, kg, th, sg, sm, caw, seedLog, maskUse,
                   dirty, written>>

Next ==
    \/ \E slot \in 1..2 : GenerateKeyFails(slot)
    \/ \E slot \in 1..2, p \in 1..NPrefixes, r \in 1..NSkRand : GenerateKeyStart(slot, p, r)
    \/ TreehashLeaf
    \/ TreehashMerge
    \/ TreehashNext
    \/ GenerateKeyReturn
    \/ \E message \in Messages : SignStart(message)
    \/ SignHead
    \/ SignHorst
    \/ SignLevel
    \/ SignReturn
    \/ \E k \in 1..2, message \in Messages : VerifyCall(k, message)
    \/ \E b \in LeafidxBits : VerifyFlipped(b)
    \/ \E k \in 1..2, body \in Messages, cut \in OpenCuts : OpenCall(k, body, cut)
    \/ \E a \in ProbeAddrs : GetSeedProbe(a)
    \/ Continue

Spec == Init /\ [][Next]_vars

(***************************************************************************)
(* Properties                                                              *)
(***************************************************************************)
AllZero(s) == \A k \in 1..Len(s) : s[k] = 0

\* C1: Verify accepts the signature Sign made of a message under the public
\* key GenerateKey returned with the private key (or an identical one); the
\* root Sign reaches after its last level is the root GenerateKey computed,
\* and the public key Sign rebuilt is the one GenerateKey returned.
C1_SignThenVerify ==
    /\ (vres.set /\ vres.flip = -1 /\ vres.message = sg.message
            /\ publicKey[vres.slot] = publicKey[1]) => vres.ok
    /\ sg.done => (sg.root = publicKey[1][nMasks + 1] /\ sg.pk = publicKey[1])

C1_Witness ==
    /\ vres.set /\ vres.flip = -1 /\ vres.slot = 1 /\ vres.message = sg.message
    /\ vres.ok
    /\ sg.root = publicKey[1][nMasks + 1]

\* C2: Verify rejects the signature once any single bit of the 64 bits of its
\* leaf index field (bytes 32..39) is inverted, the four high bits included.
C2_FlipRejected ==
    (vres.set /\ vres.flip \in LeafidxBits) => ~vres.ok

\* C3: when Sign returns, tsk, the seed buffer of Sign and the seed, WOTS
\* public key and tree buffers of computeAuthpathWots hold only zero bytes.
C3_ScratchZeroed ==
    sg.done => /\ AllZero(sg.tsk)
               /\ sg.seed = 0
               /\ AllZero(caw.ret.seed)
               /\ AllZero(caw.ret.pk)
               /\ AllZero(caw.ret.tree)

\* C4: Open of a message shorter than SignatureSize returns an error and a nil
\* body and calls Verify not at all; of any other message it calls Verify
\* exactly once, on the first SignatureSize bytes as the signature and the rest
\* as the message, and returns that rest exactly if Verify returns true.
C4_OpenContract ==
    ores.set =>
        IF ores.len < SignatureSize
        THEN ores.ret.nil /\ ores.ret.err # "" /\ ores.ret.calls = <<>>
        ELSE /\ Len(ores.ret.calls) = 1
             /\ ores.ret.calls[1].sig = sm
             /\ ores.ret.calls[1].message = SubSeq(ores.body, 1, ores.len - SignatureSize)
             /\ IF Verify(publicKey[ores.slot], ores.ret.calls[1].message, ores.ret.calls[1].sig)
                THEN ~ores.ret.nil /\ ores.ret.err = "" /\ ores.ret.body = ores.ret.calls[1].message
                ELSE ores.ret.nil /\ ores.ret.err # ""

C4_Witness ==
    /\ ores.set /\ ores.len = SignatureSize
    /\ ~ores.ret.nil /\ ores.ret.err = "" /\ ores.ret.body = <<>>
    /\ Len(ores.ret.calls) = 1

\* the address a seed word decodes to: bits 0..3, bits 4..58 and bits 59..63
SeedWordAddr(w) ==
    [level   |-> U64Low(w, 4),
     subtree |-> U64Shr(U64Shl(w, 5), 9),
     subleaf |-> U64Low(U64Shr(w, 59), 5)]

\* the entries of seedLog of one kind
SeedsOf(who) == {e \in seedLog : e.who = who}

\* C5: the word getSeed hashes, level | subtree<<4 | subleaf<<59, determines the
\* address (level 0..12, subtree < 2^55, subleaf 0..31): the address is read
\* back from it and no other address yields it.  In one Sign call the word of
\* the HORST seed differs from the word of every WOTS seed of that call, the
\* one at level 0 with the same subtree and subleaf included.
C5_SeedWordInjective ==
    /\ probe.set =>
          /\ SeedWordAddr(probe.word) = probe.a
          /\ \A a2 \in ProbeAddrs : SeedWord(a2) = probe.word => a2 = probe.a
    /\ (pc = "sign_level" /\ sg.i \in {1, nLevels}) =>
          /\ \A e \in seedLog : SeedWordAddr(e.word) = e.a
          /\ \A h \in SeedsOf("horst") :
                /\ h.a.level = nLevels
                /\ \A w \in SeedsOf("wots") : w.word # h.word
                /\ SeedEntry([h.a EXCEPT !.level = 0], "wots") \in seedLog

C5_Witness ==
    /\ pc = "sign_level" /\ sg.i = nLevels
    /\ Cardinality(SeedsOf("horst")) = 1
    /\ Cardinality(SeedsOf("wots")) = nLevels * Pow2(subtreeHeight)
    /\ \E h \in SeedsOf("horst") : h.a.subtree # U64Zero

\* C6: two private keys that agree on their first 1056 bytes and differ in
\* skRandSeed only have the same public key, from GenerateKey and as Sign
\* rebuilds it from either of them.
C6_PkIgnoresSkRand ==
    (privateKey[2] # <<>>
        /\ SubSeq(privateKey[2], 1, (seedBytes \div HashSize) + nMasks)
             = SubSeq(privateKey[1], 1, (seedBytes \div HashSize) + nMasks))
    => /\ publicKey[2] = publicKey[1]
       /\ pc = "idle" => /\ SignPublicKey(privateKey[1]) = sg.pk
                         /\ SignPublicKey(privateKey[2]) = sg.pk
                         /\ sg.pk = publicKey[2]

C6_Witness ==
    /\ privateKey[2] # <<>> /\ pc = "idle"
    /\ SubSeq(privateKey[2], 1, (seedBytes \div HashSize) + nMasks)
         = SubSeq(privateKey[1], 1, (seedBytes \div HashSize) + nMasks)
    /\ privateKey[2][PrivateKeySize \div HashSize] # privateKey[1][PrivateKeySize \div HashSize]
    /\ publicKey[2] = publicKey[1]
    /\ sg.pk = publicKey[2]

\* the node the last run of treehash copied out, where its caller keeps it
ThOutput == IF sg.started /\ kg.slot = 1 THEN sg.pk[nMasks + 1] ELSE publicKey[kg.slot][nMasks + 1]

\* C7: in treehash with height h the stack never holds more than h+1 entries;
\* when a leaf is about to be pushed the levels on the stack decrease strictly
\* from bottom to top (and a slot is free); after the last leaf the stack holds
\* one entry, of level h, which is the output; a merge of two entries of level l
\* has l <= h-1 and uses the mask pair at index 2*(logL + l).
C7_TreehashStack ==
    th.at # "none" =>
       /\ th.stackoffset <= th.height + 1
       /\ (th.at = "for" /\ th.a.subleaf < th.lastnode) =>
             /\ th.stackoffset <= th.height
             /\ \A k \in 1..(th.stackoffset - 1) : th.stacklevels[k] > th.stacklevels[k + 1]
       /\ ((th.at = "for" /\ th.a.subleaf >= th.lastnode) \/ th.at = "done") =>
             /\ th.stackoffset = 1
             /\ th.stacklevels[1] = th.height
             /\ th.a.subleaf = th.lastnode
       /\ th.at = "done" => ThOutput = th.stack[1]
       /\ th.merged >= 0 =>
             /\ th.merged <= th.height - 1
             /\ th.maskoffset = 2 * (WotsLogL + th.merged) * HashSize
             /\ th.stacklevels[th.stackoffset] = th.merged + 1

C7_Witness ==
    /\ th.at = "done" /\ th.stackoffset = 1 /\ th.stacklevels[1] = subtreeHeight
    /\ th.merged = subtreeHeight - 1
    /\ th.maskoffset = 2 * (WotsLogL + subtreeHeight - 1) * HashSize
    /\ ThOutput = th.stack[1]

\* (x >> i) XOR 1
SiblingOf(x, i) == LET y == x \div Pow2(i) IN IF y % 2 = 0 THEN y + 1 ELSE y - 1

\* C8: for the subtree of a computeAuthpathWots call and every subleaf s in
\* 0..31, validateAuthpath on the L-tree leaf of s, the index s, the
\* authentication path of s and the same masks yields the root the call wrote;
\* entry i of the path is node ((s >> i) XOR 1) of level i; both functions take
\* the mask pair at index 2*(logL + i) to hash level i into level i+1; and the
\* root is the one treehash computes for the subtree from subleaf 0.
C8_AuthpathValidates ==
    (pc = "sign_level" /\ caw.calls > 0) =>
       LET tree == caw.ret.tree
           n    == Pow2(subtreeHeight)
       IN  /\ caw.ret.authpath = CawAuthpath(tree, caw.a.subleaf, subtreeHeight)
           /\ validateAuthpath(genLeafWots(sg.masks, sg.tsk, caw.a), caw.a.subleaf,
                               caw.ret.authpath, sg.masks, subtreeHeight) = caw.ret.root
           /\ \A s \in 0..(n - 1) :
                 /\ validateAuthpath(tree[n + s + 1], s, CawAuthpath(tree, s, subtreeHeight),
                                     sg.masks, subtreeHeight) = caw.ret.root
                 /\ \A i \in 0..(subtreeHeight - 1) :
                       CawAuthpath(tree, s, subtreeHeight)[i + 1]
                          = tree[n \div Pow2(i) + SiblingOf(s, i) + 1]
           /\ \A i \in 0..(subtreeHeight - 1) :
                 /\ CawMaskIdx(i) = 2 * (WotsLogL + i)
                 /\ VaMaskIdx(i) = 2 * (WotsLogL + i)
           /\ caw.ret.root = treehash(subtreeHeight, sg.tsk, [caw.a EXCEPT !.subleaf = 0],
                                      sg.masks)

C8_Witness ==
    /\ pc = "sign_level" /\ caw.calls = nLevels
    /\ caw.a.level = nLevels - 1
    /\ caw.a.subleaf # 0
    /\ caw.ret.root # 0
    /\ validateAuthpath(caw.ret.tree[Pow2(subtreeHeight) + caw.a.subleaf + 1], caw.a.subleaf,
                        caw.ret.authpath, sg.masks, subtreeHeight) = caw.ret.root

\* every mask index some component has read
MasksUsed == maskUse.chain \cup maskUse.ltree \cup maskUse.tree

\* C9 as stated: the mask indices of the WOTS+ chains, of lTree and of the
\* subtree Merkle hashing are pairwise disjoint, and every one is below nMasks.
C9_MasksDisjoint ==
    /\ maskUse.chain \cap maskUse.ltree = {}
    /\ maskUse.chain \cap maskUse.tree = {}
    /\ maskUse.ltree \cap maskUse.tree = {}
    /\ \A m \in MasksUsed : m < nMasks

\* C9, amended: the mask indices of lTree (pair at 2*i, i in 0..logL-1) and of
\* the subtree Merkle hashing (pair at 2*(logL + l)) are disjoint, and every
\* index the chains, lTree and the Merkle hashing read is below nMasks; the
\* chain masks 0..w-2 are shared: with lTree the indices 0..2*logL-1, with the
\* Merkle hashing the index 2*logL.
C9_MasksAmended ==
    /\ maskUse.ltree \cap maskUse.tree = {}
    /\ \A m \in MasksUsed : m >= 0 /\ m < nMasks
    /\ maskUse.ltree # {} => maskUse.ltree = 0..(2 * WotsLogL - 1)
    /\ maskUse.tree \subseteq (2 * WotsLogL)..(2 * (WotsLogL + subtreeHeight) + 1)
    /\ maskUse.ltree # {} => maskUse.chain \cap maskUse.ltree = 0..(2 * WotsLogL - 1)
    /\ (2 * WotsLogL) \in maskUse.tree => maskUse.chain \cap maskUse.tree = {2 * WotsLogL}

C9_Witness ==
    /\ vres.set
    /\ maskUse.chain = 0..(WotsW - 2)
    /\ maskUse.ltree = 0..(2 * WotsLogL - 1)
    /\ maskUse.tree = (2 * WotsLogL)..(2 * (WotsLogL + subtreeHeight) + 1)

\* the segments of a signature in the order of their offsets
RECURSIVE Layout(_)
Layout(i) ==
    IF i = 0
    THEN <<[name |-> "R", off |-> 0, len |-> 32],
           [name |-> "leafidx", off |-> 32, len |-> 8],
           [name |-> "horst", off |-> 40, len |-> HorstSigBytes]>>
    ELSE LET at == 40 + HorstSigBytes + (i - 1) * (WotsSigBytes + 5 * 32)
         IN  Layout(i - 1) \o <<[name |-> "wots", off |-> at, len |-> WotsSigBytes],
                                [name |-> "authpath", off |-> at + WotsSigBytes, len |-> 5 * 32]>>

\* the words of the tail Sign uses as scratch
ScratchWords == WordsOf(SignatureSize - 32 - PublicKeySize, 32 + PublicKeySize)

\* C10: Sign writes skRandSeed into the last 32 bytes of sm, then R, the masks
\* and the rebuilt root into its last 32 + PublicKeySize bytes.  When Sign
\* returns, the cursor has gone through R (32), leafidx (8), the HORST segment
\* and 12 times (WOTS segment, 5*32-byte authentication path) in that order and
\* stands at SignatureSize; the WOTS and authpath segments of the last level
\* cover the scratch, every word of which was written again; and sm holds no
\* skRandSeed bytes.
C10_ScratchOverwritten ==
    /\ pc = "sign_pk" =>
          /\ ReadBlock(sm, SignatureSize - 32 - PublicKeySize) = sg.r
          /\ ReadBlocks(sm, SignatureSize - PublicKeySize, nMasks)
                = SubSeq(sg.tsk, 2, nMasks + 1)
          /\ ReadBlock(sm, SignatureSize - 32) = sg.skRand
          /\ dirty = ScratchWords
    /\ pc = "sign_horst" => ReadBlock(sm, SignatureSize - 32) = sg.pk[nMasks + 1]
    /\ pc = "sign_level" => sg.sigp = 40 + HorstSigBytes + sg.i * (WotsSigBytes + 5 * 32)
    /\ (sg.done /\ pc = "idle") =>
          /\ sg.sigp = SignatureSize
          /\ written = Layout(nLevels)
          /\ dirty = {}
          /\ ScratchWords \subseteq WordsOf(written[Len(written) - 1].off,
                                            WotsSigBytes + 5 * 32)
          /\ ReadBlocks(sm, SignatureSize - 5 * 32, 5) = caw.ret.authpath
          /\ \A i \in 1..Len(sm) : \A k \in 0..3 : sm[i] # BlockWord(sg.skRand, k)

C10_Witness ==
    /\ sg.done /\ pc = "idle"
    /\ sg.sigp = SignatureSize
    /\ Len(written) = 3 + 2 * nLevels
    /\ dirty = {}
    /\ sg.skRand # 0
    /\ ReadBlocks(sm, SignatureSize - 5 * 32, 5) = caw.ret.authpath

====
